---- MODULE Spec2Model ----
(***************************************************************************)
(* RingFS: a ring of fixed-size records on a NOR-flash partition.          *)
(*                                                                         *)
(* The flash is a byte array (tests/flashsim.c): erase sets a whole sector *)
(* to 0xFF, program ANDs bytes into the array.  The file system code       *)
(* is modelled operator by operator on a machine record                    *)
(*   [mem, left, dead, read, write, cursor, cache, cache_filling_level,    *)
(*    ret, out, ops]                                                       *)
(* where mem is the flash, read/write/cursor the RAM positions of          *)
(* ringfs_t, cache and cache_filling_level its page buffer,                *)
(* ret/out the handler's result, ops the flash operations the              *)
(* handler has issued, and left/dead model a power loss: a handler runs    *)
(* with a budget of `left` flash operations; the operation attempted with  *)
(* the budget used up does not happen and the device is dead from there.   *)
(***************************************************************************)
EXTENDS Integers, Sequences, FiniteSets, TLC

VARIABLES
    mem,        \* flash contents: byte address -> 0..255
    read,       \* fs->read
    write,      \* fs->write
    cursor,     \* fs->cursor
    cache,      \* fs->cache
    cache_filling_level, \* fs->cache_filling_level
    mounted,    \* the instance went through a format or a successful scan since power-on
    nextId,     \* history: payload of the next append (appends started since the last format, plus 1)
    live,       \* history: acknowledged, undiscarded, unreclaimed records, oldest first
    formatted,  \* history: a format has run to completion and none was started since
    script,     \* history: shape of the operation sequence since the last format
    lastFetched,\* history: payload id of the latest successful fetch since the last format,
                \* scan or rewind (0: none)
    fetched,    \* history: ids of the records fetched since the last discard, format or scan,
                \* in the order of their first fetch (Untracked: not recorded)
    misused,    \* history: since the last completed format, discard_one was called with read = cursor
    origin,     \* history: the flash contents at power-on were "erased" or "arbitrary"
    losses,     \* history: power losses since the last completed format
    last        \* history: the latest operation, its result and what went before

vars == <<mem, read, write, cursor, cache, cache_filling_level, mounted, nextId, live, formatted, script, lastFetched,
          fetched, misused, origin, losses, last>>

(***************************************************************************)
(* Partition geometry and instance configuration (ringfs_init arguments).  *)
(***************************************************************************)
sector_size == 19
sector_offset == 1
sector_count == 3
object_size == 1
\* fs->version, as the four bytes of a uint32_t written most significant first
version == <<0, 0, 0, 1>>

\* model bounds: appends started after a format (without power losses, with power
\* losses, with discard_one),
\* power losses after a format
MaxAppends == 8
MaxPowerAppends == 6
MaxLosses == 1
MaxItemAppends == 6
\* appends started after a format where every handler's flash operations are replayed
MaxReplayedAppends == 4
\* appends started by append_to_cache after a format
MaxCacheAppends == 3
\* appends after a format when erase_sector is called on any sector
MaxErasedAppends == 5

sizeof_sector_header == 8
sizeof_slot_header == 4
offsetof_status == 0
offsetof_version == 4

(***************************************************************************)
(* 32-bit words are written as four bytes, most significant first, the way *)
(* the C literals read.  In memory the host stores them least significant  *)
(* byte first.                                                             *)
(***************************************************************************)
SECTOR_ERASED     == <<255, 255, 255, 255>>
SECTOR_FREE       == <<255, 255, 255, 0>>
SECTOR_IN_USE     == <<255, 255, 0, 0>>
SECTOR_ERASING    == <<255, 0, 0, 0>>
SECTOR_FORMATTING == <<0, 0, 0, 0>>

SLOT_ERASED   == <<255, 255, 255, 255>>
SLOT_RESERVED == <<255, 255, 255, 0>>
SLOT_VALID    == <<255, 255, 0, 0>>
SLOT_GARBAGE  == <<255, 0, 0, 0>>

\* uint32_t -> its bytes in flash order (little endian host)
Store(w) == <<w[4], w[3], w[2], w[1]>>
\* bytes in flash order -> uint32_t
Load(b) == <<b[4], b[3], b[2], b[1]>>

\* the C operator & on two bytes
RECURSIVE BitAnd(_, _)
BitAnd(a, b) ==
    IF a = 0 \/ b = 0 THEN 0
    ELSE IF a = b THEN a
    ELSE (a % 2) * (b % 2) + 2 * BitAnd(a \div 2, b \div 2)

Addr == (sector_offset * sector_size) .. ((sector_offset + sector_count) * sector_size - 1)
Sectors == 0 .. (sector_count - 1)

(***************************************************************************)
(* The flash adapter (tests/flashsim.c behind the ringfs_flash_partition   *)
(* callbacks).                                                             *)
(***************************************************************************)
\* one flash operation wanted: does the device still have power for it
Powered(m) == ~m.dead /\ m.left > 0

flashsim_sector_erase(m, addr) ==
    IF ~Powered(m) THEN [m EXCEPT !.dead = TRUE]
    ELSE LET sector_start == addr - (addr % sector_size)
         IN [m EXCEPT
                !.mem = [a \in DOMAIN m.mem |->
                            IF a >= sector_start /\ a < sector_start + sector_size
                            THEN 255 ELSE m.mem[a]],
                !.left = @ - 1,
                !.ops = Append(@, [op |-> "erase", addr |-> sector_start, data |-> <<>>])]

RECURSIVE program_bytes(_, _, _, _)
\* the loop of flashsim_program: data[i] &= buf[i], from byte i on
program_bytes(data, addr, buf, i) ==
    IF i > Len(buf) THEN data
    ELSE program_bytes([data EXCEPT ![addr + i - 1] = BitAnd(@, buf[i])], addr, buf, i + 1)

flashsim_program(m, addr, buf) ==
    IF ~Powered(m) THEN [m EXCEPT !.dead = TRUE]
    ELSE [m EXCEPT
            !.mem = program_bytes(@, addr, buf, 1),
            !.left = @ - 1,
            !.ops = Append(@, [op |-> "program", addr |-> addr, data |-> buf])]

flashsim_read(m, addr, len) == [i \in 1..len |-> m.mem[addr + i - 1]]

(***************************************************************************)
(* Sector and slot helpers.                                                *)
(***************************************************************************)
_sector_address(sector) == (sector_offset + sector) * sector_size

\* offset of the sector header's status word inside a sector
status_offs == sector_size - sizeof_sector_header + offsetof_status
\* offset of the sector header's version word inside a sector
version_offs == sector_size - sizeof_sector_header + offsetof_version

_sector_get_status(m, sector) ==
    Load(flashsim_read(m, _sector_address(sector) + status_offs, 4))

_sector_set_status(m, sector, status) ==
    flashsim_program(m, _sector_address(sector) + status_offs, Store(status))

\* mutant of _sector_free: the final status program is left out
_sector_free_unmarked(m, sector) ==
    LET sector_addr == _sector_address(sector)
        m1 == _sector_set_status(m, sector, SECTOR_ERASING)
        m2 == flashsim_sector_erase(m1, sector_addr)
    IN  flashsim_program(m2, sector_addr + version_offs, Store(version))

\* mutant of _sector_free: the physical erase is left out
_sector_free_no_erase(m, sector) ==
    LET sector_addr == _sector_address(sector)
        m1 == _sector_set_status(m, sector, SECTOR_ERASING)
        m3 == flashsim_program(m1, sector_addr + version_offs, Store(version))
    IN  _sector_set_status(m3, sector, SECTOR_FREE)

\* mutant of _sector_free: the version is not programmed
_sector_free_no_version(m, sector) ==
    LET sector_addr == _sector_address(sector)
        m1 == _sector_set_status(m, sector, SECTOR_ERASING)
        m2 == flashsim_sector_erase(m1, sector_addr)
    IN  _sector_set_status(m2, sector, SECTOR_FREE)

_sector_free(m, sector) ==
    LET sector_addr == _sector_address(sector)
        m1 == _sector_set_status(m, sector, SECTOR_ERASING)
        m2 == flashsim_sector_erase(m1, sector_addr)
        m3 == flashsim_program(m2, sector_addr + version_offs, Store(version))
    IN  _sector_set_status(m3, sector, SECTOR_FREE)

\* mutant of _slot_address: slots laid out behind a header at the start of the sector
_slot_address_after_header(loc) ==
    _sector_address(loc.sector) + sizeof_sector_header
        + (sizeof_slot_header + object_size) * loc.slot

_slot_address(loc) ==
    _sector_address(loc.sector) + (sizeof_slot_header + object_size) * loc.slot

_slot_get_status(m, loc) ==
    Load(flashsim_read(m, _slot_address(loc) + offsetof_status, 4))

_slot_set_status(m, loc, status) ==
    flashsim_program(m, _slot_address(loc) + offsetof_status, Store(status))

\* fs->slots_per_sector, as ringfs_init computes it
slots_per_sector ==
    (sector_size - sizeof_sector_header) \div (sizeof_slot_header + object_size)

_loc_equal(a, b) == a.sector = b.sector /\ a.slot = b.slot

_loc_advance_sector(loc) ==
    [sector |-> IF loc.sector + 1 >= sector_count THEN 0 ELSE loc.sector + 1,
     slot   |-> 0]

_loc_advance_slot(loc) ==
    IF loc.slot + 1 >= slots_per_sector
    THEN _loc_advance_sector([loc EXCEPT !.slot = loc.slot + 1])
    ELSE [loc EXCEPT !.slot = loc.slot + 1]

Loc0 == [sector |-> 0, slot |-> 0]

\* the page buffer of ringfs_t: a page of 256 bytes less the slot status
CACHE_SIZE == 256 - 4

\* fs->cache as ringfs_init leaves it
EmptyCache == [i \in 1..CACHE_SIZE |-> 0]

(***************************************************************************)
(* The RingFS API.                                                         *)
(***************************************************************************)
\* mutant of format_mark: no sector is marked FORMATTING
format_mark_none(m, sector) == m

RECURSIVE format_mark(_, _)
\* first loop of ringfs_format, from `sector` on
format_mark(m, sector) ==
    IF sector < sector_count
    THEN format_mark(_sector_set_status(m, sector, SECTOR_FORMATTING), sector + 1)
    ELSE m

RECURSIVE format_free_short(_, _)
\* mutant of format_free: the loop stops one sector early
format_free_short(m, sector) ==
    IF sector < sector_count - 1
    THEN format_free_short(_sector_free(m, sector), sector + 1)
    ELSE m

RECURSIVE format_free(_, _)
\* second loop of ringfs_format, from `sector` on
format_free(m, sector) ==
    IF sector < sector_count
    THEN format_free(_sector_free(m, sector), sector + 1)
    ELSE m

ringfs_format(m) ==
    LET m1 == format_mark(m, 0)
        m2 == format_free(m1, 0)
    IN  [m2 EXCEPT !.read = Loc0, !.write = Loc0, !.cursor = Loc0, !.ret = 0]

RECURSIVE scan_sectors(_, _, _)
\* the sector loop of ringfs_scan, from `sector` on; st holds the loop's locals
scan_sectors(m, sector, st) ==
    IF sector >= sector_count THEN [m |-> m, st |-> st, failed |-> FALSE]
    ELSE
    LET addr   == _sector_address(sector)
        header == flashsim_read(m, addr + status_offs, sizeof_sector_header)
        header_status  == Load(SubSeq(header, 1, 4))
        header_version == Load(SubSeq(header, 5, 8))
    IN  IF header_status = SECTOR_FORMATTING
        THEN [m |-> m, st |-> st, failed |-> TRUE]
        ELSE
        LET repair == header_status = SECTOR_ERASING \/ header_status = SECTOR_ERASED
            m1     == IF repair THEN _sector_free(m, sector) ELSE m
            status == IF repair THEN SECTOR_FREE ELSE header_status
        IN  IF status # SECTOR_FREE /\ status # SECTOR_IN_USE
            THEN [m |-> m1, st |-> st, failed |-> TRUE]
            ELSE IF header_version # version
            THEN [m |-> m1, st |-> st, failed |-> TRUE]
            ELSE scan_sectors(m1, sector + 1,
                    [previous_sector_status |-> status,
                     free_seen    |-> st.free_seen \/ status = SECTOR_FREE,
                     used_seen    |-> st.used_seen \/ status = SECTOR_IN_USE,
                     read_sector  |-> IF status = SECTOR_IN_USE
                                         /\ st.previous_sector_status = SECTOR_FREE
                                      THEN sector ELSE st.read_sector,
                     write_sector |-> IF status = SECTOR_FREE
                                         /\ st.previous_sector_status = SECTOR_IN_USE
                                      THEN sector - 1 ELSE st.write_sector])

\* mutant of scan_write: the occupied slots of the write sector are not skipped
scan_write_first(m, loc, write_sector) == loc

RECURSIVE scan_write(_, _, _)
\* ringfs_scan: skip the occupied slots at the beginning of the write sector
scan_write(m, loc, write_sector) ==
    IF loc.sector # write_sector THEN loc
    ELSE IF _slot_get_status(m, loc) = SLOT_ERASED THEN loc
    ELSE scan_write(m, _loc_advance_slot(loc), write_sector)

\* mutant of scan_read: the slots that are not VALID are not skipped
scan_read_stay(m, loc, wr) == loc

RECURSIVE scan_read(_, _, _)
\* ringfs_scan: skip to the first VALID slot or to the write head
scan_read(m, loc, wr) ==
    IF _loc_equal(loc, wr) THEN loc
    ELSE IF _slot_get_status(m, loc) = SLOT_VALID THEN loc
    ELSE scan_read(m, _loc_advance_slot(loc), wr)

ringfs_scan(m) ==
    LET r == scan_sectors(m, 0,
                [previous_sector_status |-> SECTOR_FREE,
                 read_sector  |-> 0,
                 write_sector |-> sector_count - 1,
                 free_seen    |-> FALSE,
                 used_seen    |-> FALSE])
    IN  IF r.failed THEN [r.m EXCEPT !.ret = -1]
        ELSE IF ~r.st.free_seen THEN [r.m EXCEPT !.ret = -1]
        ELSE
        LET write_sector == IF ~r.st.used_seen THEN 0 ELSE r.st.write_sector
            wr == scan_write(r.m, [sector |-> write_sector, slot |-> 0], write_sector)
            rd == scan_read(r.m, [sector |-> r.st.read_sector, slot |-> 0], wr)
        IN  [r.m EXCEPT !.write = wr, !.read = rd, !.cursor = rd, !.ret = 0]

ringfs_capacity == slots_per_sector * (sector_count - 1)

\* mutant of ringfs_count_estimate: the sector difference is not taken modulo the
\* sector count
ringfs_count_estimate_nowrap(m) ==
    (m.write.sector - m.read.sector) * slots_per_sector + m.write.slot - m.read.slot

ringfs_count_estimate(m) ==
    LET sector_diff == (m.write.sector - m.read.sector + sector_count) % sector_count
    IN  sector_diff * slots_per_sector + m.write.slot - m.read.slot

RECURSIVE count_from(_, _)
\* the loop of ringfs_count_exact, from loc on
count_from(m, loc) ==
    IF _loc_equal(loc, m.write) THEN 0
    ELSE (IF _slot_get_status(m, loc) = SLOT_VALID THEN 1 ELSE 0)
         + count_from(m, _loc_advance_slot(loc))

ringfs_count_exact(m) == count_from(m, m.read)

\* mutant of ringfs_append: the slot is committed VALID before its payload is programmed
ringfs_append_commit_first(m, object) ==
    LET next_sector == (m.write.sector + 1) % sector_count
        status1 == _sector_get_status(m, next_sector)
        m1 == IF status1 # SECTOR_FREE
              THEN LET a == IF m.read.sector = next_sector
                            THEN [m EXCEPT !.read = _loc_advance_sector(m.read)] ELSE m
                       b == IF a.cursor.sector = next_sector
                            THEN [a EXCEPT !.cursor = _loc_advance_sector(a.cursor)] ELSE a
                   IN  _sector_free(b, next_sector)
              ELSE m
        status2 == _sector_get_status(m1, m1.write.sector)
    IN  IF status2 # SECTOR_FREE /\ status2 # SECTOR_IN_USE
        THEN [m1 EXCEPT !.ret = -1]
        ELSE
        LET m2 == IF status2 = SECTOR_FREE
                  THEN _sector_set_status(m1, m1.write.sector, SECTOR_IN_USE) ELSE m1
            m3 == _slot_set_status(m2, m2.write, SLOT_RESERVED)
            m4 == _slot_set_status(m3, m3.write, SLOT_VALID)
            m5 == flashsim_program(m4, _slot_address(m4.write) + sizeof_slot_header, object)
        IN  [m5 EXCEPT !.write = _loc_advance_slot(m5.write), !.ret = 0]

\* mutant of ringfs_append: the sector ahead of write is never reclaimed
ringfs_append_keep(m, object) ==
    LET status2 == _sector_get_status(m, m.write.sector)
    IN  IF status2 # SECTOR_FREE /\ status2 # SECTOR_IN_USE
        THEN [m EXCEPT !.ret = -1]
        ELSE
        LET m2 == IF status2 = SECTOR_FREE
                  THEN _sector_set_status(m, m.write.sector, SECTOR_IN_USE) ELSE m
            m3 == _slot_set_status(m2, m2.write, SLOT_RESERVED)
            m4 == flashsim_program(m3, _slot_address(m3.write) + sizeof_slot_header, object)
            m5 == _slot_set_status(m4, m4.write, SLOT_VALID)
        IN  [m5 EXCEPT !.write = _loc_advance_slot(m5.write), !.ret = 0]

\* mutant of ringfs_append: reclaiming the sector ahead moves read, not cursor
ringfs_append_cursor_stays(m, object) ==
    LET next_sector == (m.write.sector + 1) % sector_count
        status1 == _sector_get_status(m, next_sector)
        m1 == IF status1 # SECTOR_FREE
              THEN LET a == IF m.read.sector = next_sector
                            THEN [m EXCEPT !.read = _loc_advance_sector(m.read)] ELSE m
                   IN  _sector_free(a, next_sector)
              ELSE m
    IN  ringfs_append_keep(m1, object)

\* mutant of ringfs_append: write is not advanced past the slot stored
ringfs_append_write_stays(m, object) ==
    LET next_sector == (m.write.sector + 1) % sector_count
        status1 == _sector_get_status(m, next_sector)
        m1 == IF status1 # SECTOR_FREE
              THEN LET a == IF m.read.sector = next_sector
                            THEN [m EXCEPT !.read = _loc_advance_sector(m.read)] ELSE m
                       b == IF a.cursor.sector = next_sector
                            THEN [a EXCEPT !.cursor = _loc_advance_sector(a.cursor)] ELSE a
                   IN  _sector_free(b, next_sector)
              ELSE m
    IN  [ringfs_append_keep(m1, object) EXCEPT !.write = m1.write]

\* mutant of ringfs_append: reclaiming the sector ahead moves cursor, not read
ringfs_append_read_stays(m, object) ==
    LET next_sector == (m.write.sector + 1) % sector_count
        status1 == _sector_get_status(m, next_sector)
        m1 == IF status1 # SECTOR_FREE
              THEN LET b == IF m.cursor.sector = next_sector
                            THEN [m EXCEPT !.cursor = _loc_advance_sector(m.cursor)] ELSE m
                   IN  _sector_free(b, next_sector)
              ELSE m
    IN  ringfs_append_keep(m1, object)

ringfs_append(m, object) ==
    LET next_sector == (m.write.sector + 1) % sector_count
        status1 == _sector_get_status(m, next_sector)
        m1 == IF status1 # SECTOR_FREE
              THEN LET a == IF m.read.sector = next_sector
                            THEN [m EXCEPT !.read = _loc_advance_sector(m.read)] ELSE m
                       b == IF a.cursor.sector = next_sector
                            THEN [a EXCEPT !.cursor = _loc_advance_sector(a.cursor)] ELSE a
                   IN  _sector_free(b, next_sector)
              ELSE m
        status2 == _sector_get_status(m1, m1.write.sector)
    IN  IF status2 # SECTOR_FREE /\ status2 # SECTOR_IN_USE
        THEN [m1 EXCEPT !.ret = -1]
        ELSE
        LET m2 == IF status2 = SECTOR_FREE
                  THEN _sector_set_status(m1, m1.write.sector, SECTOR_IN_USE) ELSE m1
            m3 == _slot_set_status(m2, m2.write, SLOT_RESERVED)
            m4 == flashsim_program(m3, _slot_address(m3.write) + sizeof_slot_header, object)
            m5 == _slot_set_status(m4, m4.write, SLOT_VALID)
        IN  [m5 EXCEPT !.write = _loc_advance_slot(m5.write), !.ret = 0]

\* mutant of ringfs_append_to_cache: the buffer is flushed when it is exactly full too
ringfs_append_to_cache_eager(m, object, size) ==
    LET flush == size + m.cache_filling_level >= CACHE_SIZE
        a     == IF flush THEN ringfs_append(m, SubSeq(m.cache, 1, object_size)) ELSE m
        res   == IF flush /\ a.ret # 0 THEN a.ret ELSE size
        level == IF flush THEN 0 ELSE m.cache_filling_level
    IN  [a EXCEPT
            !.cache = [i \in 1..CACHE_SIZE |->
                          IF i > level /\ i <= level + size THEN object[i - level] ELSE @[i]],
            !.cache_filling_level = level + size,
            !.ret = res]

\* ringfs_append_to_cache, for 0 <= size <= CACHE_SIZE; the append of the buffer
\* programs the first object_size bytes of fs->cache
ringfs_append_to_cache(m, object, size) ==
    LET flush == size + m.cache_filling_level > CACHE_SIZE
        a     == IF flush THEN ringfs_append(m, SubSeq(m.cache, 1, object_size)) ELSE m
        res   == IF flush /\ a.ret # 0 THEN a.ret ELSE size
        level == IF flush THEN 0 ELSE m.cache_filling_level
    IN  [a EXCEPT
            !.cache = [i \in 1..CACHE_SIZE |->
                          IF i > level /\ i <= level + size THEN object[i - level] ELSE @[i]],
            !.cache_filling_level = level + size,
            !.ret = res]

ringfs_erase_sector(m, sector2erase) == _sector_free(m, sector2erase)

RECURSIVE ringfs_fetch_stay(_)
\* mutant of ringfs_fetch: the cursor is not advanced past the slot delivered
ringfs_fetch_stay(m) ==
    IF _loc_equal(m.cursor, m.write) THEN [m EXCEPT !.ret = -1]
    ELSE IF _slot_get_status(m, m.cursor) = SLOT_VALID
    THEN [m EXCEPT
            !.out = flashsim_read(m, _slot_address(m.cursor) + sizeof_slot_header, object_size),
            !.ret = 0]
    ELSE ringfs_fetch_stay([m EXCEPT !.cursor = _loc_advance_slot(m.cursor)])

RECURSIVE ringfs_fetch_consume(_)
\* mutant of ringfs_fetch: the slot delivered is marked GARBAGE
ringfs_fetch_consume(m) ==
    IF _loc_equal(m.cursor, m.write) THEN [m EXCEPT !.ret = -1]
    ELSE IF _slot_get_status(m, m.cursor) = SLOT_VALID
    THEN LET m1 == _slot_set_status(m, m.cursor, SLOT_GARBAGE)
         IN  [m1 EXCEPT
                !.out = flashsim_read(m, _slot_address(m.cursor) + sizeof_slot_header, object_size),
                !.cursor = _loc_advance_slot(m.cursor),
                !.ret = 0]
    ELSE ringfs_fetch_consume([m EXCEPT !.cursor = _loc_advance_slot(m.cursor)])

RECURSIVE ringfs_fetch(_)
ringfs_fetch(m) ==
    IF _loc_equal(m.cursor, m.write) THEN [m EXCEPT !.ret = -1]
    ELSE IF _slot_get_status(m, m.cursor) = SLOT_VALID
    THEN [m EXCEPT
            !.out = flashsim_read(m, _slot_address(m.cursor) + sizeof_slot_header, object_size),
            !.cursor = _loc_advance_slot(m.cursor),
            !.ret = 0]
    ELSE ringfs_fetch([m EXCEPT !.cursor = _loc_advance_slot(m.cursor)])

\* mutant of ringfs_discard: read is moved to cursor, no slot is marked GARBAGE
ringfs_discard_unmarked(m) == [m EXCEPT !.read = m.cursor, !.ret = 0]

RECURSIVE ringfs_discard_through(_)
\* mutant of ringfs_discard: the slot at cursor is marked too when read # cursor
ringfs_discard_through(m) ==
    IF _loc_equal(m.read, m.cursor) THEN [m EXCEPT !.ret = 0]
    ELSE LET m1 == _slot_set_status(m, m.read, SLOT_GARBAGE)
             m2 == IF _loc_equal(_loc_advance_slot(m1.read), m1.cursor)
                   THEN _slot_set_status(m1, m1.cursor, SLOT_GARBAGE) ELSE m1
         IN  ringfs_discard_through([m2 EXCEPT !.read = _loc_advance_slot(m2.read)])

RECURSIVE ringfs_discard(_)
ringfs_discard(m) ==
    IF _loc_equal(m.read, m.cursor) THEN [m EXCEPT !.ret = 0]
    ELSE LET m1 == _slot_set_status(m, m.read, SLOT_GARBAGE)
         IN  ringfs_discard([m1 EXCEPT !.read = _loc_advance_slot(m1.read)])

\* mutant of ringfs_item_discard: nothing is done when read = cursor
ringfs_item_discard_guarded(m) ==
    IF _loc_equal(m.read, m.cursor) THEN [m EXCEPT !.ret = 0]
    ELSE LET m1 == _slot_set_status(m, m.read, SLOT_GARBAGE)
         IN  [m1 EXCEPT !.read = _loc_advance_slot(m1.read), !.ret = 0]

ringfs_item_discard(m) ==
    LET m1 == _slot_set_status(m, m.read, SLOT_GARBAGE)
    IN  [m1 EXCEPT !.read = _loc_advance_slot(m1.read), !.ret = 0]

\* mutant of ringfs_rewind: the assignment goes the other way
ringfs_rewind_swapped(m) == [m EXCEPT !.read = m.cursor, !.ret = 0]

ringfs_rewind(m) == [m EXCEPT !.cursor = m.read, !.ret = 0]

(***************************************************************************)
(* The state machine.  An operation runs on the machine built from the     *)
(* current state; its result becomes the next state.                       *)
(***************************************************************************)
\* more flash operations than any handler issues
MaxFlashOps == 5 * sector_count + slots_per_sector * sector_count
Unlimited == MaxFlashOps + 1

Machine(budget) ==
    [mem |-> mem, left |-> budget, dead |-> FALSE,
     read |-> read, write |-> write, cursor |-> cursor,
     cache |-> cache, cache_filling_level |-> cache_filling_level,
     ret |-> 0, out |-> <<>>, ops |-> <<>>]

\* the object handed to the id-th append
Object(id) == [i \in 1..object_size |-> IF i = 1 THEN id ELSE 0]

IsStatusAddr(a) == \E k \in Sectors : a = _sector_address(k) + status_offs
IsVersionAddr(a) == \E k \in Sectors : a = _sector_address(k) + version_offs
SectorOf(a) == ((a - (a % sector_size)) \div sector_size) - sector_offset

SlotLocs == {[sector |-> k, slot |-> i] : k \in Sectors, i \in 0..(slots_per_sector - 1)}

NoSlot == [sector |-> -1, slot |-> -1]

\* the slot that the flash operations ops program RESERVED, or NoSlot
TornSlot(ops) ==
    LET hit == {loc \in SlotLocs :
                   \E i \in 1..Len(ops) :
                       /\ ops[i].op = "program"
                       /\ ops[i].addr = _slot_address(loc)
                       /\ ops[i].data = Store(SLOT_RESERVED)}
    IN  IF hit = {} THEN NoSlot ELSE CHOOSE loc \in hit : TRUE

\* the sector whose _sector_free the flash operations ops end in the middle of, or -1
TornSector(ops) ==
    IF ops = <<>> THEN -1
    ELSE LET o == ops[Len(ops)]
         IN  IF \/ o.op = "erase"
                \/ o.op = "program" /\ IsStatusAddr(o.addr) /\ o.data = Store(SECTOR_ERASING)
                \/ o.op = "program" /\ IsVersionAddr(o.addr)
             THEN SectorOf(o.addr) ELSE -1

\* the flash operations ops discard record rec or start reclaiming its sector
Killed(ops, rec) ==
    \E i \in 1..Len(ops) :
        \/ /\ ops[i].op = "program"
           /\ ops[i].addr = _slot_address(rec.loc)
           /\ ops[i].data = Store(SLOT_GARBAGE)
        \/ /\ ops[i].op = "program"
           /\ ops[i].addr = _sector_address(rec.loc.sector) + status_offs
           /\ ops[i].data \in {Store(SECTOR_ERASING), Store(SECTOR_FORMATTING)}
        \/ /\ ops[i].op = "erase"
           /\ ops[i].addr = _sector_address(rec.loc.sector)

Keep(ops) == SelectSeq(live, LAMBDA rec : ~Killed(ops, rec))

\* the value of fetched in the specifications that do not record the fetched ids
Untracked == <<0>>

\* the RAM positions and the history common to all operations; `last` records a
\* scan and a power loss, and what went before them
Outcome(name, r, mnt) ==
    /\ mem' = r.mem
    /\ read'   = IF r.dead THEN Loc0 ELSE r.read
    /\ write'  = IF r.dead THEN Loc0 ELSE r.write
    /\ cursor' = IF r.dead THEN Loc0 ELSE r.cursor
    /\ cache' = IF r.dead THEN EmptyCache ELSE r.cache
    /\ cache_filling_level' = IF r.dead THEN 0 ELSE r.cache_filling_level
    /\ mounted' = IF r.dead THEN FALSE ELSE mnt
    /\ origin' = origin
    /\ fetched' = IF fetched = Untracked THEN Untracked
                  ELSE IF r.dead \/ name \in {"format", "scan", "discard", "discard_one"} THEN <<>>
                  ELSE IF name = "fetch" /\ r.ret = 0 /\ (\A i \in 1..Len(fetched) : fetched[i] # r.out[1])
                  THEN Append(fetched, r.out[1])
                  ELSE fetched
    /\ misused' = IF name = "format" /\ ~r.dead THEN FALSE
                  ELSE IF name = "discard_one" /\ _loc_equal(read, cursor) THEN TRUE
                  ELSE misused
    /\ losses' = IF r.dead THEN losses + 1
                 ELSE IF name = "format" THEN 0 ELSE losses
    /\ last' = IF r.dead \/ name = "scan"
               THEN [op      |-> name,
                     ret     |-> IF r.dead THEN 0 ELSE r.ret,
                     crashed |-> r.dead,
                     nops    |-> IF r.dead THEN Len(r.ops) ELSE 0,
                     torn    |-> IF r.dead THEN TornSector(r.ops) ELSE -1,
                     slot    |-> IF r.dead THEN TornSlot(r.ops) ELSE NoSlot,
                     after     |-> IF last.crashed THEN last.op ELSE "none",
                     afterNops |-> IF last.crashed THEN last.nops ELSE 0,
                     afterTorn |-> IF last.crashed THEN last.torn ELSE -1,
                     afterSlot |-> IF last.crashed THEN last.slot ELSE NoSlot]
               ELSE [op |-> "other", ret |-> 0, crashed |-> FALSE, nops |-> 0,
                     torn |-> -1, slot |-> NoSlot,
                     after |-> "none", afterNops |-> 0, afterTorn |-> -1, afterSlot |-> NoSlot]

NoLast ==
    [op |-> "other", ret |-> 0, crashed |-> FALSE, nops |-> 0,
     torn |-> -1, slot |-> NoSlot,
     after |-> "none", afterNops |-> 0, afterTorn |-> -1, afterSlot |-> NoSlot]

ErasedFlash == [a \in Addr |-> 255]

Init ==
    /\ mem = ErasedFlash
    /\ read = Loc0 /\ write = Loc0 /\ cursor = Loc0
    /\ cache = EmptyCache /\ cache_filling_level = 0
    /\ mounted = FALSE
    /\ nextId = 1
    /\ live = <<>>
    /\ formatted = FALSE
    /\ script = "other"
    /\ lastFetched = 0
    /\ fetched = Untracked
    /\ misused = FALSE
    /\ origin = "erased"
    /\ losses = 0
    /\ last = NoLast

FormatWith(budget) ==
    \E r \in {ringfs_format(Machine(budget))} :
        /\ Outcome("format", r, TRUE)
        /\ IF r.ops = <<>>
           THEN UNCHANGED <<nextId, live, formatted>>
           ELSE nextId' = 1 /\ live' = <<>> /\ formatted' = ~r.dead
        /\ script' = IF r.dead THEN "other" ELSE "FA"
        /\ lastFetched' = 0

ScanWith(budget) ==
    \E r \in {ringfs_scan(Machine(budget))} :
        /\ Outcome("scan", r, r.ret = 0)
        /\ live' = Keep(r.ops)
        /\ script' = IF ~r.dead /\ script = "FA" THEN "FAS" ELSE "other"
        /\ lastFetched' = 0
        /\ UNCHANGED <<nextId, formatted>>

AppendWith(budget, limit) ==
    /\ mounted
    /\ nextId <= limit
    /\ \E r \in {ringfs_append(Machine(budget), Object(nextId))} :
       LET acked == ~r.dead /\ r.ret = 0
       IN  /\ Outcome("append", r, TRUE)
           /\ live' = IF acked
                      THEN Append(Keep(r.ops), [id |-> nextId, loc |-> write])
                      ELSE Keep(r.ops)
           /\ nextId' = IF r.ops = <<>> THEN nextId ELSE nextId + 1
           /\ script' = IF acked /\ script = "FA" THEN "FA" ELSE "other"
           /\ lastFetched' = IF r.dead THEN 0 ELSE lastFetched
           /\ UNCHANGED formatted

Fetch ==
    /\ mounted
    /\ \E r \in {ringfs_fetch(Machine(Unlimited))} :
           /\ Outcome("fetch", r, TRUE)
           /\ lastFetched' = IF r.ret = 0 THEN r.out[1] ELSE lastFetched
           /\ script' = "other"
           /\ UNCHANGED <<nextId, live, formatted>>

DiscardWith(budget) ==
    /\ mounted
    /\ \E r \in {ringfs_discard(Machine(budget))} :
           /\ Outcome("discard", r, TRUE)
           /\ live' = Keep(r.ops)
           /\ script' = "other"
           /\ lastFetched' = IF r.dead THEN 0 ELSE lastFetched
           /\ UNCHANGED <<nextId, formatted>>

\* discard_one: unconditional, the caller is the one to check that read # cursor
DiscardOne ==
    /\ mounted
    /\ \E r \in {ringfs_item_discard(Machine(Unlimited))} :
           /\ Outcome("discard_one", r, TRUE)
           /\ live' = Keep(r.ops)
           /\ script' = "other"
           /\ UNCHANGED <<nextId, formatted, lastFetched>>

Rewind ==
    /\ mounted
    /\ \E r \in {ringfs_rewind(Machine(Unlimited))} :
           /\ Outcome("rewind", r, TRUE)
           /\ lastFetched' = 0
           /\ script' = "other"
           /\ UNCHANGED <<nextId, live, formatted>>

\* erase_sector as the spec's low-priority task uses it: on the sector ahead of write
EraseSectorWith(budget) ==
    /\ mounted
    /\ \E r \in {ringfs_erase_sector(Machine(budget), (write.sector + 1) % sector_count)} :
           /\ Outcome("erase_sector", r, TRUE)
           /\ live' = Keep(r.ops)
           /\ script' = "other"
           /\ lastFetched' = IF r.dead THEN 0 ELSE lastFetched
           /\ UNCHANGED <<nextId, formatted>>

\* erase_sector on any sector of the ring: the code takes the sector from its caller
EraseAnySector ==
    /\ mounted
    /\ \E sector2erase \in Sectors :
       \E r \in {ringfs_erase_sector(Machine(Unlimited), sector2erase)} :
           /\ Outcome("erase_sector", r, TRUE)
           /\ live' = Keep(r.ops)
           /\ script' = "other"
           /\ UNCHANGED <<nextId, formatted, lastFetched>>

\* the sizes handed to append_to_cache: nothing, two sizes that fill the buffer
\* exactly, the whole buffer
CacheLens == {0, 100, CACHE_SIZE - 100, CACHE_SIZE}

\* the bytes handed to append_to_cache: size bytes that tell the calls apart
Chunk(tag, size) == [i \in 1..size |-> tag]

\* append_to_cache; the code does not ask whether the instance is mounted, and a
\* flush on a flash that was never formatted makes its append return -1
AppendToCache ==
    /\ nextId <= MaxCacheAppends
    /\ \E size \in CacheLens :
       \E r \in {ringfs_append_to_cache(Machine(Unlimited), Chunk(nextId, size), size)} :
          LET flush == size + cache_filling_level > CACHE_SIZE
              acked == flush /\ r.ret # -1
          IN  /\ Outcome("append_to_cache", r, mounted)
              /\ live' = IF acked
                         THEN Append(Keep(r.ops), [id |-> nextId, loc |-> write])
                         ELSE Keep(r.ops)
              /\ nextId' = IF r.ops = <<>> THEN nextId ELSE nextId + 1
              /\ script' = "other"
              /\ UNCHANGED <<formatted, lastFetched>>

Format == FormatWith(Unlimited)
Scan == ScanWith(Unlimited)
Append_ == AppendWith(Unlimited, MaxAppends)
AppendPower == AppendWith(Unlimited, MaxPowerAppends)
AppendItem == AppendWith(Unlimited, MaxItemAppends)
AppendReplayed == AppendWith(Unlimited, MaxReplayedAppends)
AppendErased == AppendWith(Unlimited, MaxErasedAppends)
Discard == DiscardWith(Unlimited)
EraseSector == EraseSectorWith(Unlimited)

\* power is lost with the handler between two of its flash operations: the budgets
\* that let the first operation happen and not the last
Cuts(r) == 1 .. (Len(r.ops) - 1)

\* power is lost between operations
PowerLoss ==
    /\ losses < MaxLosses
    /\ losses' = losses + 1
    /\ origin' = origin
    /\ misused' = misused
    /\ fetched' = IF fetched = Untracked THEN Untracked ELSE <<>>
    /\ mem' = mem
    /\ read' = Loc0 /\ write' = Loc0 /\ cursor' = Loc0
    /\ cache' = EmptyCache /\ cache_filling_level' = 0
    /\ mounted' = FALSE
    /\ last' = [NoLast EXCEPT !.op = "idle", !.crashed = TRUE]
    /\ script' = "other"
    /\ lastFetched' = 0
    /\ UNCHANGED <<nextId, live, formatted>>

FormatCut ==
    /\ losses < MaxLosses
    /\ \E b \in Cuts(ringfs_format(Machine(Unlimited))) : FormatWith(b)
ScanCut ==
    /\ losses < MaxLosses
    /\ \E b \in Cuts(ringfs_scan(Machine(Unlimited))) : ScanWith(b)
AppendCut ==
    /\ losses < MaxLosses
    /\ \E b \in Cuts(ringfs_append(Machine(Unlimited), Object(nextId))) : AppendWith(b, MaxPowerAppends)
DiscardCut ==
    /\ losses < MaxLosses
    /\ \E b \in Cuts(ringfs_discard(Machine(Unlimited))) : DiscardWith(b)
EraseSectorCut ==
    /\ losses < MaxLosses
    /\ \E b \in Cuts(ringfs_erase_sector(Machine(Unlimited), (write.sector + 1) % sector_count)) :
          EraseSectorWith(b)

Next == Format \/ Scan \/ Append_ \/ Fetch \/ Discard \/ Rewind

Spec == Init /\ [][Next]_vars

\* the operations without power loss, with the fetched ids recorded
InitReplay ==
    /\ mem = ErasedFlash
    /\ read = Loc0 /\ write = Loc0 /\ cursor = Loc0
    /\ cache = EmptyCache /\ cache_filling_level = 0
    /\ mounted = FALSE
    /\ nextId = 1
    /\ live = <<>>
    /\ formatted = FALSE
    /\ script = "other"
    /\ lastFetched = 0
    /\ fetched = <<>>
    /\ misused = FALSE
    /\ origin = "erased"
    /\ losses = 0
    /\ last = NoLast

SpecReplay == InitReplay /\ [][Next]_vars

NextItem == Format \/ Scan \/ AppendItem \/ Fetch \/ Discard \/ DiscardOne \/ Rewind

SpecItem == Init /\ [][NextItem]_vars

\* the same operations, with fewer appends
NextPrograms == Format \/ Scan \/ AppendReplayed \/ Fetch \/ Discard \/ DiscardOne \/ Rewind

SpecPrograms == Init /\ [][NextPrograms]_vars

\* the page buffer in front of append
NextCache == Format \/ Scan \/ AppendToCache \/ Fetch

SpecCache == Init /\ [][NextCache]_vars

NextPower ==
    \/ Format \/ Scan \/ AppendPower \/ Fetch \/ Discard \/ Rewind \/ EraseSector
    \/ FormatCut \/ ScanCut \/ AppendCut \/ DiscardCut \/ EraseSectorCut
    \/ PowerLoss

SpecPower == Init /\ [][NextPower]_vars

(***************************************************************************)
(* Format on a flash that holds anything: each sector starts as one of a   *)
(* few images (erased, all zero, junk bytes, a used sector of another      *)
(* version with VALID slots, a FREE sector with junk in its slots).        *)
(***************************************************************************)
HeaderImage(fill, status, ver) ==
    [o \in 0..(sector_size - 1) |->
        IF o >= version_offs /\ o < version_offs + 4 THEN Store(ver)[o - version_offs + 1]
        ELSE IF o >= status_offs /\ o < status_offs + 4 THEN Store(status)[o - status_offs + 1]
        ELSE fill]

UsedImage ==
    [o \in 0..(sector_size - 1) |->
        IF o >= version_offs /\ o < version_offs + 4 THEN Store(<<0, 0, 0, 2>>)[o - version_offs + 1]
        ELSE IF o >= status_offs /\ o < status_offs + 4 THEN Store(SECTOR_IN_USE)[o - status_offs + 1]
        ELSE IF o >= slots_per_sector * (sizeof_slot_header + object_size) THEN 255
        ELSE LET p == o % (sizeof_slot_header + object_size)
             IN  IF p < sizeof_slot_header THEN Store(SLOT_VALID)[p + 1] ELSE 7]

SectorImages ==
    { HeaderImage(255, SECTOR_ERASED, SECTOR_ERASED),
      HeaderImage(0, SECTOR_FORMATTING, SECTOR_FORMATTING),
      HeaderImage(165, <<165, 165, 165, 165>>, <<165, 165, 165, 165>>),
      HeaderImage(90, SECTOR_FREE, version),
      UsedImage }

InitArbitrary ==
    /\ \E img \in [Sectors -> SectorImages] :
          mem = [a \in Addr |-> img[SectorOf(a)][a % sector_size]]
    /\ read = Loc0 /\ write = Loc0 /\ cursor = Loc0
    /\ cache = EmptyCache /\ cache_filling_level = 0
    /\ mounted = FALSE
    /\ nextId = 1
    /\ live = <<>>
    /\ formatted = FALSE
    /\ script = "other"
    /\ lastFetched = 0
    /\ fetched = Untracked
    /\ misused = FALSE
    /\ origin = IF mem = ErasedFlash THEN "erased" ELSE "arbitrary"
    /\ losses = 0
    /\ last = NoLast

NextFormat == Format \/ FormatCut \/ Scan \/ Fetch

SpecFormat == InitArbitrary /\ [][NextFormat]_vars

\* format, scan, fetch and append on a flash that holds anything
NextAnyFlash == Format \/ FormatCut \/ Scan \/ Fetch \/ AppendReplayed

SpecAnyFlash == InitArbitrary /\ [][NextAnyFlash]_vars

\* discard_one as its caller is to use it, on a record that fetch has delivered
DiscardOneFetched == ~_loc_equal(read, cursor) /\ DiscardOne

\* every operation that changes the ring, without power loss
NextAllOps ==
    \/ Format \/ Scan \/ AppendErased \/ Fetch \/ Discard \/ DiscardOneFetched \/ Rewind
    \/ EraseAnySector

SpecAllOps == Init /\ [][NextAllOps]_vars

(***************************************************************************)
(* Properties.                                                             *)
(***************************************************************************)
Current == Machine(Unlimited)

RECURSIVE FetchAll(_)
\* the objects that fetch, repeated until it returns -1, delivers
FetchAll(m) ==
    LET r == ringfs_fetch(m)
    IN  IF r.ret # 0 THEN <<>> ELSE <<r.out>> \o FetchAll(r)

\* the objects of the appends from .. to, in order
Objects(from, to) == [i \in 1..(to - from + 1) |-> Object(from + i - 1)]

\* number of appends since the last format
Appended == nextId - 1

FreeSectors == {k \in Sectors : _sector_get_status(Current, k) = SECTOR_FREE}

LiveIds == {live[i].id : i \in 1..Len(live)}

\* C1: successive successful fetches with no rewind or scan in between return
\* payloads in append order: a fetch returns a record appended later than the one
\* the fetch before it returned (lastFetched), and it skips no record appended in
\* between that is still undiscarded and unreclaimed (before the first fetch of a
\* run: no such record older than the one returned).
C1_FetchInAppendOrder ==
    mounted =>
        LET r == ringfs_fetch(Current)
        IN  r.ret = 0 =>
                /\ r.out[1] > lastFetched
                /\ \A id \in LiveIds : ~(lastFetched < id /\ id < r.out[1])

\* C1 witness: a fetch run that goes on after an append has reclaimed the sector the
\* cursor was in: the next fetch jumps over the reclaimed records
C1_Witness ==
    /\ mounted
    /\ lastFetched >= 1
    /\ Appended > ringfs_capacity
    /\ LET r == ringfs_fetch(Current)
       IN  r.ret = 0 /\ r.out[1] > lastFetched + 1

\* C5: after a completed format, between operations, some sector has status FREE.
C5_SomeSectorFree == (formatted /\ mounted) => FreeSectors # {}

\* C5 witness: a ring that has wrapped, with exactly one FREE sector left
C5_Witness ==
    /\ formatted /\ mounted
    /\ Appended > ringfs_capacity
    /\ Cardinality(FreeSectors) = 1

\* C6: after format, k <= capacity appends reclaim nothing: capacity is
\* slots_per_sector * (sector_count - 1), count_exact is k and repeated fetch
\* returns the k records in append order.
C6_AppendsUpToCapacity ==
    (script = "FA" /\ Appended <= slots_per_sector * (sector_count - 1)) =>
        /\ ringfs_capacity = slots_per_sector * (sector_count - 1)
        /\ ringfs_count_exact(Current) = Appended
        /\ FetchAll(Current) = Objects(1, Appended)
        /\ LiveIds = 1..Appended

\* C6 witness: the ring filled to capacity right after format
C6_Witness == script = "FA" /\ Appended = ringfs_capacity

\* C7 as stated: after format and capacity + 1 appends, fetching everything yields
\* exactly capacity records, the last capacity ones appended.
C7_Original ==
    (script = "FA" /\ Appended = ringfs_capacity + 1) =>
        FetchAll(Current) = Objects(2, Appended)

\* C7 amended: after format and capacity + 1 appends, fetching everything yields
\* capacity + 1 - slots_per_sector records, the last ones appended: the append
\* that exceeds the capacity reclaims the whole oldest sector.
C7_OverflowDropsSector ==
    (script = "FA" /\ Appended = ringfs_capacity + 1) =>
        /\ FetchAll(Current) = Objects(slots_per_sector + 1, Appended)
        /\ Len(FetchAll(Current)) = ringfs_capacity + 1 - slots_per_sector

\* C7 witness: capacity + 1 appends right after format
C7_Witness == script = "FA" /\ Appended = ringfs_capacity + 1

\* C8: after format, k <= capacity appends and a scan, the scan has returned 0 and
\* repeated fetch returns the k records in append order, then -1.
C8_ScanKeepsRecords ==
    (script = "FAS" /\ Appended <= ringfs_capacity) =>
        /\ last.op = "scan" /\ last.ret = 0 /\ mounted
        /\ FetchAll(Current) = Objects(1, Appended)

\* C8 witness: a scan of the ring filled to capacity
C8_Witness == script = "FAS" /\ Appended = ringfs_capacity

\* the payload bytes of the slot at loc
Payload(loc) == flashsim_read(Current, _slot_address(loc) + sizeof_slot_header, object_size)

_sector_get_version(k) == Load(flashsim_read(Current, _sector_address(k) + version_offs, 4))

ScannedAfterTornFree ==
    /\ last.op = "scan" /\ ~last.crashed
    /\ formatted
    /\ last.after \in {"append", "erase_sector", "scan"}
    /\ last.afterTorn >= 0

\* C3: after a power loss between two flash operations of _sector_free (called from
\* append, erase_sector or scan) on a formatted ring, the next scan returns 0 and
\* leaves that sector FREE with the configured version.
C3_ScanCompletesErase ==
    ScannedAfterTornFree =>
        /\ last.ret = 0
        /\ _sector_get_status(Current, last.afterTorn) = SECTOR_FREE
        /\ _sector_get_version(last.afterTorn) = version

\* the records repeated fetch should deliver: the acknowledged, undiscarded,
\* unreclaimed ones, oldest first
LiveObjects == [i \in 1..Len(live) |-> Object(live[i].id)]

\* C4: after a power loss between two flash operations of append, discard or
\* erase_sector, followed by scan, the ring is mounted and repeated fetch returns
\* exactly the records acknowledged before the power loss, not discarded and not in
\* a sector whose reclamation had started, in append order.
C4_RecoveryKeepsRecords ==
    (/\ last.op = "scan" /\ ~last.crashed
     /\ formatted
     /\ last.after \in {"append", "discard", "erase_sector"}) =>
        /\ last.ret = 0 /\ mounted
        /\ FetchAll(Current) = LiveObjects

\* a scan that ran to its end right after a power loss in format, with nops flash
\* operations of the format done
ScannedAfterCutFormat(nops) ==
    /\ last.op = "scan" /\ ~last.crashed
    /\ last.after = "format"
    /\ last.afterNops = nops

\* number of flash operations of format up to and including the physical erase of
\* the last sector
OpsToLastErase == sector_count + 4 * (sector_count - 1) + 2

\* C9 as stated: a power loss anywhere after FORMATTING has been programmed to every
\* sector and before format returns makes the next scan return -1.
C9_Original ==
    \A nops \in sector_count .. (5 * sector_count - 1) :
        ScannedAfterCutFormat(nops) => last.ret = -1

\* C9 amended: a power loss after FORMATTING has been programmed to every sector and
\* before the last sector has been physically erased makes the next scan return -1;
\* later the flash holds no FORMATTING status any more, and a power loss between the
\* version program and the FREE program of the last sector is followed by a scan
\* that returns 0.
C9_CutFormatUnmountable ==
    /\ \A nops \in sector_count .. (OpsToLastErase - 1) :
          ScannedAfterCutFormat(nops) => (last.ret = -1 /\ ~mounted)
    /\ ScannedAfterCutFormat(5 * sector_count - 1) => last.ret = 0

\* C9 witness: the scan after a format cut right before the erase of the last sector
C9_Witness == ScannedAfterCutFormat(OpsToLastErase - 1) /\ last.ret = -1

\* C10: format, from any flash contents, leaves every sector FREE with the
\* configured version, every slot ERASED and read = write = cursor = (0,0); a scan
\* that follows returns 0, count_exact is 0 and fetch returns -1.
C10_FormatFromAnything ==
    (script = "FA" /\ Appended = 0) =>
        /\ \A k \in Sectors :
              /\ _sector_get_status(Current, k) = SECTOR_FREE
              /\ _sector_get_version(k) = version
        /\ \A loc \in SlotLocs :
              /\ _slot_get_status(Current, loc) = SLOT_ERASED
              /\ Payload(loc) = [i \in 1..object_size |-> 255]
        /\ read = Loc0 /\ write = Loc0 /\ cursor = Loc0
        /\ LET s == ringfs_scan(Current)
           IN  /\ s.ret = 0
               /\ s.mem = mem
               /\ ringfs_count_exact(s) = 0
               /\ ringfs_fetch(s).ret = -1

\* C10 witness: a completed format of a flash that did not start erased
C10_Witness == script = "FA" /\ Appended = 0 /\ origin = "arbitrary"

(***************************************************************************)
(* Ring order.                                                             *)
(***************************************************************************)
\* index of a slot in the ring, and the number of slots from a forward to b
Pos(loc) == loc.sector * slots_per_sector + loc.slot
Dist(a, b) == (Pos(b) - Pos(a) + sector_count * slots_per_sector) % (sector_count * slots_per_sector)

\* C11 as stated: between operations, cursor lies in [read, write) in ring order,
\* at or after read and strictly before write.
C11_Original == mounted => Dist(read, cursor) < Dist(read, write)

\* C11 amended: between operations, cursor lies in [read, write] in ring order (at
\* or after read and at or before write; cursor = write when every record has been
\* fetched or the ring is empty), as long as discard_one was never called with
\* read = cursor.
C11_CursorBetween == (mounted /\ ~misused) => Dist(read, cursor) <= Dist(read, write)

\* C11 witness: a ring that has wrapped, with fetched and unfetched records, some
\* of the fetched ones given up by discard_one (read is in the middle of a sector)
C11_Witness ==
    /\ mounted /\ ~misused
    /\ Appended > ringfs_capacity
    /\ read.slot # 0
    /\ Dist(read, cursor) > 0 /\ Dist(cursor, write) > 0

\* a step that is an append returning 0: only an append counts nextId up, and an
\* append that returns 0 adds its record to live
AppendAcked ==
    /\ nextId' = nextId + 1
    /\ live' # <<>> /\ live'[Len(live')].id = nextId

\* the instance and the flash as a step leaves them
Following ==
    [mem |-> mem', left |-> Unlimited, dead |-> FALSE,
     read |-> read', write |-> write', cursor |-> cursor',
     cache |-> cache', cache_filling_level |-> cache_filling_level',
     ret |-> 0, out |-> <<>>, ops |-> <<>>]

\* on m, repeated fetch delivers x as its last record
FetchableLast(m, x) ==
    LET f == FetchAll(m)
    IN  f # <<>> /\ f[Len(f)] = x

\* on m, rewind and then fetch deliver x
FetchedAfterRewind(m, x) ==
    LET r == ringfs_fetch(ringfs_rewind(m))
    IN  r.ret = 0 /\ r.out = x

\* C12 as stated: after any sequence of format, append, fetch, discard, discard_one
\* and rewind, an append(x) that returns 0 makes x the last record that repeated
\* fetch delivers; on an empty ring, append(x); rewind; fetch delivers x.
C12_Original ==
    [][AppendAcked =>
          /\ FetchableLast(Following, Object(nextId))
          /\ (ringfs_count_exact(Current) = 0 =>
                 FetchedAfterRewind(Following, Object(nextId)))]_vars

\* C12 amended: the same, as long as discard_one was never called with read = cursor
\* (such a call programs GARBAGE to a slot that a later append stores into).
C12_AppendedIsFetchable ==
    [][(AppendAcked /\ ~misused) =>
          /\ FetchableLast(Following, Object(nextId))
          /\ (ringfs_count_exact(Current) = 0 =>
                 FetchedAfterRewind(Following, Object(nextId)))]_vars

\* C12 witness: the latest append, made on a ring emptied by fetch and discard_one
\* after it had wrapped, is fetchable
C12_Witness ==
    /\ mounted /\ ~misused
    /\ Appended > ringfs_capacity
    /\ read.slot # 0
    /\ ringfs_count_exact(Current) = 1
    /\ FetchableLast(Current, Object(nextId - 1))
    /\ FetchedAfterRewind(Current, Object(nextId - 1))

\* the sector ahead of write, which append reclaims when it is not FREE
Ahead == (write.sector + 1) % sector_count

\* a step that is an append (only an append counts nextId up) that finds the sector
\* ahead of write not FREE
AppendReclaims ==
    /\ nextId' = nextId + 1
    /\ _sector_get_status(Current, Ahead) # SECTOR_FREE

\* where a position is after the reclamation of the sector ahead
Moved(loc) ==
    IF loc.sector = Ahead
    THEN [sector |-> (Ahead + 1) % sector_count, slot |-> 0]
    ELSE loc

\* the append stopped at its physical erase: one flash operation (the ERASING
\* program) is allowed, the next one, the erase, is not
AtErase == ringfs_append(Machine(1), Object(nextId))

\* C13: an append that finds the sector ahead of write not FREE moves read and cursor
\* to slot 0 of the sector after it exactly when they are in the sector reclaimed,
\* and before the physical erase: when the erase is issued neither read nor cursor
\* is in that sector; afterwards the sector is FREE and fetch, also after rewind,
\* delivers the surviving records only, never the payload of an erased slot.
C13_ReadersLeaveReclaimedSector ==
    [][AppendReclaims =>
          /\ read' = Moved(read)
          /\ cursor' = Moved(cursor)
          /\ AtErase.dead /\ Len(AtErase.ops) = 1
          /\ AtErase.read.sector # Ahead /\ AtErase.cursor.sector # Ahead
          /\ _sector_get_status(Following, Ahead) = SECTOR_FREE
          /\ FetchAll(ringfs_rewind(Following)) = [i \in 1..Len(live') |-> Object(live'[i].id)]
          /\ \A i \in 1..Len(live') : live'[i].loc.sector # Ahead]_vars

\* C13 witness: the append that exceeds the capacity has reclaimed sector 0 while
\* the cursor was in the middle of it, after one fetch; read and cursor are at slot
\* 0 of sector 1
C13_Witness ==
    /\ mounted /\ formatted
    /\ Appended = ringfs_capacity + 1
    /\ lastFetched = 1
    /\ read = [sector |-> 1, slot |-> 0]
    /\ cursor = [sector |-> 1, slot |-> 0]
    /\ _sector_get_status(Current, 0) = SECTOR_FREE

\* a scan that ran to its end right after a power loss in an append that had
\* programmed the slot last.afterSlot RESERVED and not yet VALID
ScannedAfterTornAppend ==
    /\ last.op = "scan" /\ ~last.crashed
    /\ formatted
    /\ last.after = "append"
    /\ last.afterSlot # NoSlot

\* C14: after a power loss in append between the RESERVED program and the VALID
\* program, the next scan returns 0 and puts write at the slot following the
\* RESERVED slot; the slot stays RESERVED, fetch delivers the records committed
\* before and not the torn one, and the next append stores its record in the slot
\* after the RESERVED one, which it leaves RESERVED.  The code breaks the last
\* part after an erase_sector of the sector that holds read: a discard then
\* programs GARBAGE into the slots of the FREE sector, and an append to such a
\* slot returns 0 with the slot still GARBAGE on flash.
C14_TornSlotIsSkipped ==
    ScannedAfterTornAppend =>
        /\ last.ret = 0 /\ mounted
        /\ write = _loc_advance_slot(last.afterSlot)
        /\ _slot_get_status(Current, last.afterSlot) = SLOT_RESERVED
        /\ FetchAll(Current) = LiveObjects
        /\ \A i \in 1..Len(live) : live[i].loc # last.afterSlot
        /\ LET r == ringfs_append(Current, Object(nextId))
           IN  /\ r.ret = 0
               /\ _slot_get_status(r, write) = SLOT_VALID
               /\ flashsim_read(r, _slot_address(write) + sizeof_slot_header, object_size)
                      = Object(nextId)
               /\ _slot_get_status(r, last.afterSlot) = SLOT_RESERVED

\* the conditions under which scan is said to fail: a sector FORMATTING, a sector of
\* unknown status, an IN_USE sector of another version, or no sector that is FREE
\* or becomes FREE by repair
ScanMustFail ==
    \/ \E k \in Sectors :
          \/ _sector_get_status(Current, k) = SECTOR_FORMATTING
          \/ _sector_get_status(Current, k) \notin
                 {SECTOR_ERASED, SECTOR_FREE, SECTOR_IN_USE, SECTOR_ERASING}
          \/ /\ _sector_get_status(Current, k) = SECTOR_IN_USE
             /\ _sector_get_version(k) # version
    \/ \A k \in Sectors :
          _sector_get_status(Current, k) \notin {SECTOR_FREE, SECTOR_ERASED, SECTOR_ERASING}

\* C15: scan returns -1 if and only if it meets a sector with status FORMATTING, a
\* sector whose status is none of ERASED, FREE, IN_USE, ERASING, or an IN_USE sector
\* whose version differs from the configured one, or finds no FREE sector (a
\* repaired ERASED or ERASING sector counts as FREE); otherwise it returns 0.
\* Stated for the flash of a ring formatted with the configured version.
C15_ScanFailsExactlyWhen ==
    formatted =>
        /\ ringfs_scan(Current).ret \in {0, -1}
        /\ ringfs_scan(Current).ret = -1 <=> ScanMustFail

\* C16: on every flash reachable by operations and power losses (of a ring formatted
\* with the configured version), a scan and a second scan right after it return the
\* same value and leave the same read, write and cursor.
C16_ScanTwice ==
    formatted =>
        LET s1 == ringfs_scan(Current)
            s2 == ringfs_scan(s1)
        IN  /\ s2.ret = s1.ret
            /\ s2.read = s1.read /\ s2.write = s1.write /\ s2.cursor = s1.cursor

\* C17 as stated: in every state reachable by format, scan, append, fetch, discard,
\* discard_one and rewind, count_estimate >= count_exact.
C17_Original == mounted => ringfs_count_estimate(Current) >= ringfs_count_exact(Current)

\* C17 amended: the same, as long as discard_one was never called with read = cursor
\* (such a call can move read past write).
C17_EstimateBoundsExact ==
    (mounted /\ ~misused) => ringfs_count_estimate(Current) >= ringfs_count_exact(Current)

\* C17 witness: a wrapped ring with records left after discard_one gave up some
\* (read is in the middle of a sector)
C17_Witness ==
    /\ mounted /\ ~misused
    /\ write.sector < read.sector
    /\ read.slot # 0
    /\ ringfs_count_exact(Current) >= 2

\* C18: without power loss, in any sequence of format, append, fetch, discard and
\* rewind, right after each discard count_exact is the number of records that were
\* appended with success and neither discarded after their fetch nor lost in a
\* sector reclaimed by append (the records of live).
C18_CountAfterDiscard ==
    [][Discard => (/\ ringfs_count_exact(Following) = Len(live')
                   /\ Len(live') <= Appended)]_vars

\* C18 witness: after a discard (read = cursor, in the middle of a sector) on a ring
\* that has lost records to reclamation as well, some records are left
C18_Witness ==
    /\ mounted /\ formatted
    /\ Appended > ringfs_capacity
    /\ read = cursor /\ read.slot # 0
    /\ Len(live) >= 1
    /\ ringfs_count_exact(Current) = Len(live)

\* the slots from a up to but not including b, in ring order
RingFrom(a, b) == {loc \in SlotLocs : Dist(a, loc) < Dist(a, b)}

\* the ids of the records that repeated fetch delivers on m
FetchedIds(m) == LET f == FetchAll(m) IN {f[i][1] : i \in 1..Len(f)}

\* C19: in every state reachable by format, append, fetch, discard, discard_one and
\* rewind, discard programs GARBAGE to exactly the slots from read up to but not
\* including cursor and does no other flash operation, ends with read = cursor and
\* leaves write, cursor, every sector status and every other byte of the flash as
\* they were; discarded records are not delivered by a later fetch, also after
\* rewind or scan: what fetch delivers is a record that was not discarded.
C19_DiscardFrame ==
    mounted =>
        LET r == ringfs_discard(Current)
            gone == RingFrom(read, cursor)
        IN  /\ r.ret = 0
            /\ Len(r.ops) = Cardinality(gone)
            /\ {r.ops[i] : i \in 1..Len(r.ops)} =
                   {[op |-> "program", addr |-> _slot_address(loc), data |-> Store(SLOT_GARBAGE)] :
                        loc \in gone}
            /\ \A loc \in gone : _slot_get_status(r, loc) = SLOT_GARBAGE
            /\ \A a \in Addr :
                   (\A loc \in gone : a < _slot_address(loc) \/ a >= _slot_address(loc) + sizeof_slot_header)
                       => r.mem[a] = mem[a]
            /\ \A k \in Sectors : _sector_get_status(r, k) = _sector_get_status(Current, k)
            /\ r.read = cursor /\ r.cursor = cursor /\ r.write = write
            /\ FetchedIds(r) \cup FetchedIds(ringfs_rewind(r)) \subseteq LiveIds
            /\ \A rec \in {live[i] : i \in 1..Len(live)} :
                   rec.loc \in gone => rec.id \notin FetchedIds(ringfs_rewind(r))
            /\ LET s == ringfs_scan(r)
               IN  s.ret = 0 =>
                       /\ FetchedIds(s) \subseteq LiveIds
                       /\ \A rec \in {live[i] : i \in 1..Len(live)} :
                              rec.loc \in gone => rec.id \notin FetchedIds(s)

\* C19 witness: a discard is due on a wrapped ring: two fetched records lie between
\* read and cursor, across a sector boundary, and unfetched ones follow
C19_Witness ==
    /\ mounted /\ ~misused
    /\ Appended > ringfs_capacity
    /\ Dist(read, cursor) >= 2
    /\ read.sector # cursor.sector
    /\ Dist(cursor, write) >= 1
    /\ Cardinality({i \in 1..Len(live) : live[i].loc \in RingFrom(read, cursor)}) >= 2

\* the objects of the ids of a sequence
ObjectsOf(ids) == [i \in 1..Len(ids) |-> Object(ids[i])]

\* the ids of live not yet fetched since the last discard, oldest first
Unfetched ==
    SelectSeq([i \in 1..Len(live) |-> live[i].id],
              LAMBDA id : \A i \in 1..Len(fetched) : fetched[i] # id)

\* rewind changes cursor and nothing else
RewindFrame ==
    LET r == ringfs_rewind(Current)
    IN  /\ r.ret = 0
        /\ r.cursor = read /\ r.read = read /\ r.write = write
        /\ r.mem = mem /\ r.ops = <<>>

\* C20 as stated: rewind sets cursor to read and changes nothing else; after it,
\* repeated fetch delivers every record fetched since the last discard, in the
\* order of before, and then the records not yet fetched.
C20_Original ==
    mounted =>
        /\ RewindFrame
        /\ FetchAll(ringfs_rewind(Current)) = ObjectsOf(fetched) \o ObjectsOf(Unfetched)

\* C20 amended: rewind sets cursor to read and changes nothing else; after it,
\* repeated fetch delivers every record fetched since the last discard whose sector
\* append has not reclaimed in the meantime, in the order of before, and then the
\* records not yet fetched.
C20_RewindReplays ==
    mounted =>
        /\ RewindFrame
        /\ FetchAll(ringfs_rewind(Current)) =
               ObjectsOf(SelectSeq(fetched, LAMBDA id : id \in LiveIds)) \o ObjectsOf(Unfetched)

\* C20 witness: two records were fetched, a rewind and one more fetch followed (the
\* cursor is behind the second fetched record), and unfetched records remain
C20_Witness ==
    /\ mounted
    /\ Len(fetched) = 2
    /\ fetched[1] \in LiveIds /\ fetched[2] \in LiveIds
    /\ lastFetched = fetched[1]
    /\ Unfetched # <<>>

\* C21: fetch does no flash operation and changes neither the flash nor read nor
\* write; on an empty ring (cursor = write) it returns -1 and leaves cursor where it
\* is.  count_estimate, count_exact and capacity are functions of the instance: they
\* return a number (capacity the same one in every state) and have no other result.
C21_ReadersChangeNothing ==
    mounted =>
        LET r == ringfs_fetch(Current)
        IN  /\ r.ops = <<>> /\ r.mem = mem
            /\ r.read = read /\ r.write = write
            /\ r.ret \in {0, -1}
            /\ _loc_equal(cursor, write) => (r.ret = -1 /\ r.cursor = cursor)
            /\ ringfs_count_estimate(r) = ringfs_count_estimate(Current)
            /\ ringfs_count_exact(r) = ringfs_count_exact(Current)
            /\ ringfs_capacity = slots_per_sector * (sector_count - 1)

\* C21 witness: a fetch is due on a wrapped ring whose records have all been fetched
\* and not discarded: cursor = write, read # cursor
C21_Witness ==
    /\ mounted
    /\ Appended > ringfs_capacity
    /\ _loc_equal(cursor, write) /\ ~_loc_equal(read, cursor)
    /\ ringfs_count_exact(Current) >= 2
    /\ lastFetched = nextId - 1

\* m as the next handler finds it: the flash and the positions of m, no flash
\* operation issued yet and no power loss ahead
Fresh(m) == [m EXCEPT !.left = Unlimited, !.ops = <<>>]

RECURSIVE RunAppends(_, _, _)
\* n appends in a row on m, of the objects id, id + 1, ...
RunAppends(m, id, n) ==
    IF n = 0 THEN m ELSE RunAppends(ringfs_append(Fresh(m), Object(id)), id + 1, n - 1)

\* the longest run of appends compared: one turn of the ring
HintAppends == slots_per_sector * sector_count

\* C22: erase_sector on the sector ahead of write is only a hint: from every state
\* reached by format, append, fetch, discard and rewind, n appends give the same
\* results, and repeated fetch after them (also after rewind) delivers the same
\* records, whether or not erase_sector(Ahead) was called before the appends.
C22_EraseSectorIsHint ==
    mounted =>
        \A n \in 1..HintAppends :
            LET a == RunAppends(Current, nextId, n)
                b == RunAppends(ringfs_erase_sector(Current, Ahead), nextId, n)
            IN  /\ a.ret = b.ret
                /\ FetchAll(a) = FetchAll(b)
                /\ FetchAll(ringfs_rewind(a)) = FetchAll(ringfs_rewind(b))

(***************************************************************************)
(* The flash operations of one handler call, replayed on the flash the     *)
(* call started from.                                                      *)
(***************************************************************************)
\* the flash after the flash operation o
ApplyOp(data, o) ==
    IF o.op = "erase"
    THEN [a \in DOMAIN data |-> IF a >= o.addr /\ a < o.addr + sector_size THEN 255 ELSE data[a]]
    ELSE program_bytes(data, o.addr, o.data, 1)

\* programming buf at addr clears bits only: the bytes stored afterwards are buf
ClearsOnly(data, addr, buf) ==
    \A j \in 1..Len(buf) : BitAnd(data[addr + j - 1], buf[j]) = buf[j]

\* the program o of _sector_free that marks a sector ERASING while the sector's
\* stored status is FORMATTING (all bits cleared already)
ErasingOverFormatting(data, o) ==
    /\ IsStatusAddr(o.addr)
    /\ o.data = Store(SECTOR_ERASING)
    /\ [j \in 1..4 |-> data[o.addr + j - 1]] = Store(SECTOR_FORMATTING)

RECURSIVE OnlyClears(_, _, _, _)
\* every program among ops[i..], issued on the flash data, clears bits only; with
\* lenient, the ERASING program on a FORMATTING sector is let through
OnlyClears(data, ops, i, lenient) ==
    IF i > Len(ops) THEN TRUE
    ELSE /\ \/ ops[i].op # "program"
            \/ ClearsOnly(data, ops[i].addr, ops[i].data)
            \/ lenient /\ ErasingOverFormatting(data, ops[i])
         /\ OnlyClears(ApplyOp(data, ops[i]), ops, i + 1, lenient)

\* the flash operations of the handler call that ended in r clear bits only
Clean(r, lenient) == OnlyClears(mem, r.ops, 1, lenient)

\* C23 as stated: every program of format, scan, append, discard and discard_one
\* (those of their _sector_free included) clears bits only: the word stored after
\* the program is the value programmed.
C23_Original ==
    /\ Clean(ringfs_format(Current), FALSE)
    /\ Clean(ringfs_scan(Current), FALSE)
    /\ mounted =>
          /\ Clean(ringfs_append(Current, Object(nextId)), FALSE)
          /\ Clean(ringfs_discard(Current), FALSE)
          /\ Clean(ringfs_item_discard(Current), FALSE)

\* C23 amended: every program of format, scan, append, discard and discard_one
\* clears bits only, so that the word stored is the value programmed, except the
\* ERASING program of _sector_free on a sector whose status is FORMATTING (every
\* sector during format): there the stored status stays FORMATTING until the erase
\* that follows.  For append this needs that discard_one was never called with
\* read = cursor.
C23_ProgramsOnlyClear ==
    /\ Clean(ringfs_format(Current), TRUE)
    /\ ~Clean(ringfs_format(Current), FALSE)
    /\ Clean(ringfs_scan(Current), FALSE)
    /\ mounted =>
          /\ Clean(ringfs_discard(Current), FALSE)
          /\ Clean(ringfs_item_discard(Current), FALSE)
          /\ ~misused => Clean(ringfs_append(Current, Object(nextId)), FALSE)

\* C23 witness: on a full ring with GARBAGE and VALID slots, the next append has
\* to reclaim the sector ahead of write, and a discard has slots to mark
C23_Witness ==
    /\ mounted /\ ~misused
    /\ Appended = ringfs_capacity
    /\ _sector_get_status(Current, Ahead) # SECTOR_FREE
    /\ read.slot # 0
    /\ ~_loc_equal(read, cursor)
    /\ Len(ringfs_append(Current, Object(nextId)).ops) >= 2 + 4

RECURSIVE FlashBefore(_, _, _)
\* the flash right before the flash operation ops[i], data being the flash before ops[1]
FlashBefore(data, ops, i) ==
    IF i <= 1 THEN data ELSE ApplyOp(FlashBefore(data, ops, i - 1), ops[i - 1])

\* the machine with the flash data and the positions of m
OnFlash(m, data) == [m EXCEPT !.mem = data]

\* the indexes of the flash operations of r that program a slot RESERVED
ReservedOps(r) ==
    {i \in 1..Len(r.ops) :
        /\ r.ops[i].op = "program"
        /\ r.ops[i].data = Store(SLOT_RESERVED)
        /\ \E loc \in SlotLocs : r.ops[i].addr = _slot_address(loc)}

\* C24: in any sequence of format, scan, append, fetch, discard and rewind, an
\* append that is due programs at most one slot RESERVED, the slot at write; at that
\* moment the slot is ERASED with an erased payload, its sector is IN_USE and the
\* sector ahead of it is FREE.  Between operations write is never at the slot of an
\* acknowledged record that is neither discarded nor reclaimed.
C24_WriteSlotIsFresh ==
    mounted =>
        LET r == ringfs_append(Current, Object(nextId))
        IN  /\ \A i \in ReservedOps(r) :
                  LET before == OnFlash(r, FlashBefore(mem, r.ops, i))
                  IN  /\ r.ops[i].addr = _slot_address(write)
                      /\ i = Len(r.ops) - 2
                      /\ _slot_get_status(before, write) = SLOT_ERASED
                      /\ flashsim_read(before, _slot_address(write) + sizeof_slot_header, object_size)
                             = [j \in 1..object_size |-> 255]
                      /\ _sector_get_status(before, write.sector) = SECTOR_IN_USE
                      /\ _sector_get_status(before, Ahead) = SECTOR_FREE
            /\ r.ret = 0 => Cardinality(ReservedOps(r)) = 1
            /\ \A i \in 1..Len(live) : live[i].loc # write

\* C24 witness: on a wrapped ring write is at slot 0 of a FREE sector and the sector
\* ahead holds records: the append that is due reclaims one sector and allocates
\* the other before it programs RESERVED
C24_Witness ==
    /\ mounted
    /\ Appended > ringfs_capacity
    /\ write.slot = 0
    /\ _sector_get_status(Current, write.sector) = SECTOR_FREE
    /\ _sector_get_status(Current, Ahead) = SECTOR_IN_USE
    /\ \E i \in 1..Len(live) : live[i].loc.sector = Ahead

\* C25: between the operations of a sequence of format, append, fetch, discard and
\* rewind without power loss, every slot of read.sector below read.slot is GARBAGE,
\* every slot from read up to write in ring order is VALID or GARBAGE, and every
\* slot of write.sector at or after write.slot is ERASED.
C25_SlotLayout ==
    mounted =>
        /\ \A loc \in SlotLocs :
              (loc.sector = read.sector /\ loc.slot < read.slot)
                  => _slot_get_status(Current, loc) = SLOT_GARBAGE
        /\ \A loc \in RingFrom(read, write) :
              _slot_get_status(Current, loc) \in {SLOT_VALID, SLOT_GARBAGE}
        /\ \A loc \in SlotLocs :
              (loc.sector = write.sector /\ loc.slot >= write.slot)
                  => _slot_get_status(Current, loc) = SLOT_ERASED

\* C25 witness: a wrapped ring after a discard that ended in the middle of a sector,
\* with records left, write in the middle of a sector before read's
C25_Witness ==
    /\ mounted /\ formatted
    /\ Appended > ringfs_capacity
    /\ read.slot # 0 /\ write.slot # 0
    /\ write.sector < read.sector
    /\ Len(live) >= 2

\* the flash operation that programs buf at addr
Program(addr, buf) == [op |-> "program", addr |-> addr, data |-> buf]

\* the payload bytes of the slot at loc on the flash of m
PayloadOn(m, loc) == flashsim_read(m, _slot_address(loc) + sizeof_slot_header, object_size)

\* C26: the last three flash operations of an append that returns 0 program, at the
\* slot at write, status RESERVED, then the payload, then status VALID, and the
\* append leaves write one slot further.  At every flash-operation boundary of the append, every slot
\* whose stored status is VALID holds a completely programmed payload: the object
\* being appended at the slot at write, the object of an acknowledged record
\* elsewhere.
C26_CommitOrder ==
    mounted =>
        LET object == Object(nextId)
            r == ringfs_append(Current, object)
            n == Len(r.ops)
        IN  r.ret = 0 =>
                /\ n >= 3
                /\ r.ops[n - 2] = Program(_slot_address(write), Store(SLOT_RESERVED))
                /\ r.ops[n - 1] = Program(_slot_address(write) + sizeof_slot_header, object)
                /\ r.ops[n] = Program(_slot_address(write), Store(SLOT_VALID))
                /\ r.write = _loc_advance_slot(write)
                /\ \A i \in 1..(n + 1) :
                      LET at == OnFlash(r, FlashBefore(mem, r.ops, i))
                      IN  \A loc \in SlotLocs :
                              _slot_get_status(at, loc) = SLOT_VALID =>
                                  IF _loc_equal(loc, write)
                                  THEN PayloadOn(at, loc) = object
                                  ELSE \E k \in 1..Len(live) :
                                          /\ live[k].loc = loc
                                          /\ PayloadOn(at, loc) = Object(live[k].id)

\* C26 witness: on a wrapped ring the append that is due reclaims the sector ahead,
\* allocates the write sector and stores its record: eight flash operations
C26_Witness ==
    /\ mounted
    /\ Appended > ringfs_capacity
    /\ Len(live) >= 2
    /\ LET r == ringfs_append(Current, Object(nextId))
       IN  r.ret = 0 /\ Len(r.ops) = 8

\* C27: _sector_free(k) issues four flash operations: program status ERASING, erase
\* the sector, program the version, program status FREE.  Whatever sector k held,
\* it is FREE afterwards with the configured version and erased slots, nothing
\* outside the sector has changed and read, write and cursor are where they were; a
\* FREE sector stays FREE.  After a format, every sector whose status is FREE or
\* IN_USE has the configured version.
C27_SectorFree ==
    /\ \A k \in Sectors :
          LET r == _sector_free(Current, k)
              status_addr == _sector_address(k) + status_offs
          IN  /\ r.ops = << Program(status_addr, Store(SECTOR_ERASING)),
                            [op |-> "erase", addr |-> _sector_address(k), data |-> <<>>],
                            Program(_sector_address(k) + version_offs, Store(version)),
                            Program(status_addr, Store(SECTOR_FREE)) >>
              /\ _sector_get_status(r, k) = SECTOR_FREE
              /\ Load(flashsim_read(r, _sector_address(k) + version_offs, 4)) = version
              /\ \A loc \in SlotLocs :
                    loc.sector = k =>
                        /\ _slot_get_status(r, loc) = SLOT_ERASED
                        /\ PayloadOn(r, loc) = [j \in 1..object_size |-> 255]
              /\ \A a \in Addr : SectorOf(a) # k => r.mem[a] = mem[a]
              /\ r.read = read /\ r.write = write /\ r.cursor = cursor
    /\ formatted =>
          \A k \in Sectors :
              _sector_get_status(Current, k) \in {SECTOR_FREE, SECTOR_IN_USE}
                  => _sector_get_version(k) = version

\* C27 witness: a flash that held other contents was formatted and appended to: it
\* has IN_USE and FREE sectors, and the next _sector_free is for a sector in use
C27_Witness ==
    /\ formatted /\ mounted /\ origin = "arbitrary"
    /\ Appended = ringfs_capacity
    /\ _sector_get_status(Current, Ahead) = SECTOR_IN_USE
    /\ \E k \in Sectors : _sector_get_status(Current, k) = SECTOR_FREE

\* the first VALID slot at or after loc and before wr in ring order, wr if none
FirstValid(m, loc, wr) ==
    LET valid == {l \in RingFrom(loc, wr) : _slot_get_status(m, l) = SLOT_VALID}
    IN  IF valid = {} THEN wr
        ELSE CHOOSE l \in valid : \A o \in valid : Dist(loc, l) <= Dist(loc, o)

\* C28: after any sequence of format, append, fetch, discard and rewind without
\* power loss, scan returns 0, changes no flash byte and finds the positions from
\* the flash alone: write is the write held in RAM before the scan, read is the
\* first VALID slot at or after the read held before (write if there is none), and
\* cursor = read.
C28_ScanRecoversPositions ==
    mounted =>
        LET s == ringfs_scan([Current EXCEPT !.read = Loc0, !.write = Loc0, !.cursor = Loc0])
        IN  /\ s.ret = 0
            /\ s.ops = <<>>
            /\ s.write = write
            /\ s.read = FirstValid(Current, read, write)
            /\ s.cursor = s.read

\* C28 witness: a scan has run on a wrapped ring whose read was in the middle of a
\* sector after a discard, with records left
C28_Witness ==
    /\ mounted /\ formatted
    /\ last.op = "scan" /\ last.ret = 0
    /\ Appended > ringfs_capacity
    /\ read.slot # 0
    /\ write.sector < read.sector
    /\ Len(live) >= 2

\* C29: discard_one is unconditional: in every state, the empty ring with
\* read = cursor = write included, it issues one flash operation, the program of
\* GARBAGE to the slot at read, moves read one slot on and returns 0; cursor, write,
\* every sector status and every byte outside that slot's status are as before.
C29_DiscardOneUnconditional ==
    mounted =>
        LET r == ringfs_item_discard(Current)
        IN  /\ r.ret = 0
            /\ r.ops = <<Program(_slot_address(read), Store(SLOT_GARBAGE))>>
            /\ _slot_get_status(r, read) = SLOT_GARBAGE
            /\ r.read = _loc_advance_slot(read) /\ Dist(read, r.read) = 1
            /\ r.cursor = cursor /\ r.write = write
            /\ \A k \in Sectors : _sector_get_status(r, k) = _sector_get_status(Current, k)
            /\ \A a \in Addr :
                  (a < _slot_address(read) \/ a >= _slot_address(read) + sizeof_slot_header)
                      => r.mem[a] = mem[a]

\* C29 witness: discard_one has run on an empty ring: read is one slot past write
\* and cursor, and the slot at write is GARBAGE
C29_Witness ==
    /\ mounted /\ misused
    /\ _loc_equal(cursor, write)
    /\ Dist(write, read) = 1
    /\ _slot_get_status(Current, write) = SLOT_GARBAGE
    /\ Appended >= 1

C30_WitnessFailedFlush ==
    /\ ~mounted /\ ~formatted
    /\ cache_filling_level = CACHE_SIZE
    /\ ringfs_append_to_cache(Current, Chunk(nextId, 100), 100).ret = -1

\* the sectors of machine m are all FREE or IN_USE and an append on it returns 0,
\* leaving the sector it wrote to IN_USE
AppendSucceeds(m) ==
    LET r == ringfs_append(Fresh(m), Object(nextId))
    IN  /\ \A k \in Sectors : _sector_get_status(m, k) \in {SECTOR_FREE, SECTOR_IN_USE}
        /\ _sector_get_status(r, m.write.sector) = SECTOR_IN_USE
        /\ r.ret = 0

\* C31: after format or a successful scan, in any sequence of append, fetch,
\* discard, discard_one, rewind and erase_sector without power loss, every sector
\* is FREE or IN_USE, so the status append reads for write.sector, after it has
\* freed the sector ahead, is FREE or IN_USE and the append returns 0; the same
\* holds after one more of these operations, discard_one with read = cursor and
\* erase_sector on any sector included.
C31_AppendNeverFails ==
    mounted =>
        /\ AppendSucceeds(Current)
        /\ AppendSucceeds(ringfs_append(Current, Object(nextId)))
        /\ AppendSucceeds(ringfs_fetch(Current))
        /\ AppendSucceeds(ringfs_discard(Current))
        /\ AppendSucceeds(ringfs_item_discard(Current))
        /\ AppendSucceeds(ringfs_rewind(Current))
        /\ \A k \in Sectors : AppendSucceeds(ringfs_erase_sector(Current, k))

\* C31 witness: erase_sector has freed the sector that write is in the middle of,
\* after appends to it, and the next append goes into that sector
C31_Witness ==
    /\ mounted /\ formatted
    /\ origin = "erased"
    /\ Appended >= 1
    /\ write.slot > 0
    /\ _sector_get_status(Current, write.sector) = SECTOR_FREE
    /\ ringfs_append(Current, Object(nextId)).ret = 0

\* C32: after format and m >= 1 consecutive appends, count_exact is at least
\* min(m, slots_per_sector * (sector_count - 2) + 1) and at most
\* slots_per_sector * (sector_count - 1); the records that repeated fetch returns
\* are the count_exact most recently appended ones, in append order; the records
\* dropped are whole sectors, and one more append drops none or one sector.
C32_OverwriteDropsSectors ==
    (script = "FA" /\ Appended >= 1) =>
        LET kept    == ringfs_count_exact(Current)
            least   == slots_per_sector * (sector_count - 2) + 1
            next    == ringfs_append(Current, Object(nextId))
            dropped == (Appended + 1 - ringfs_count_exact(next)) - (Appended - kept)
        IN  /\ kept >= (IF Appended < least THEN Appended ELSE least)
            /\ kept <= slots_per_sector * (sector_count - 1)
            /\ FetchAll(Current) = Objects(Appended - kept + 1, Appended)
            /\ (Appended - kept) % slots_per_sector = 0
            /\ dropped \in {0, slots_per_sector}
            /\ FetchAll(next) = Objects(Appended + 1 - ringfs_count_exact(next) + 1, Appended + 1)

\* C32 witness: the appends after format have gone round the ring and the last one
\* has reclaimed a second sector, which leaves the least number of records
C32_Witness ==
    /\ script = "FA"
    /\ Appended = slots_per_sector * sector_count + 1
    /\ ringfs_count_exact(Current) = slots_per_sector * (sector_count - 2) + 1

====
